---- MODULE Spec2Model ----
(***************************************************************************)
(* piper-speechd: a speech-dispatcher output module.  The model covers the *)
(* line channel of src/src/io.rs (a reader thread feeding an mpsc queue,   *)
(* the blocking recv! and the polling try_recv!), the command loop of      *)
(* start() and the recursive playback function speak() of src/src/main.rs. *)
(*                                                                         *)
(* A line is the sequence of its '='-separated fields: "pitch=50" is       *)
(* <<"pitch", "50">>, "SPEAK" is <<"SPEAK">>, "a=b=c" is <<"a","b","c">>.  *)
(* An output line is a record [code, sep, text, at]: the three-digit code  *)
(* (0 when the line carries none), the separator after it, the rest of the *)
(* line, and for marks and audio the place in the document it belongs to:  *)
(* the path of the markup node followed by the index of the chunk in the   *)
(* synthesis sequence (0 for a mark).                                      *)
(***************************************************************************)
EXTENDS Integers, Sequences, FiniteSets, TLC

VARIABLES
    queue,      \* io.rs STDIN: lines sent by the reader thread, not yet received
    got,        \* the last line received, and by which of recv! and try_recv!
    host,       \* the dialogue the host holds in this run (fixed per behaviour)
    pc,         \* where the worker thread is: the recv!/try_recv! it is at
    out,        \* the lines the worker thread wrote to stdout in its last step
    voices,     \* main.rs voices: name -> TRUE iff its synthesizer is cached
    voice,      \* main.rs voice: the active voice name
    pitch,      \* main.rs pitch, in units of 1/200
    rate,       \* main.rs rate, in units of 1/200
    volume,     \* main.rs volume, in units of 1/200
    logLevel,   \* level of the reloadable log filter (1 Error .. 5 Trace)
    logSink,    \* log file of the reloadable logger ("stderr" when none)
    doc,        \* ssml.elements of the SPEAK being played
    stack,      \* the active calls of speak(): <<[idx, sp]>>, innermost last
    chunk,      \* chunks pulled so far from the synthesis sequence of the current Text
    iter,       \* the last iteration of the chunk loop: what was pulled and polled
    fault,      \* what has failed in this SPEAK ("" while nothing has)
    paused,     \* the place of the chunk at which this SPEAK first received PAUSE
    last,       \* the place of the last mark or chunk this SPEAK has sent
    outcome,    \* what speak() returned to the SPEAK arm ("none" before it returns)
    audio,      \* main.rs audio: the bytes of the chunk being escaped
    scan,       \* how many bytes of audio the escaping loop has still to visit
    raw         \* the bytes of the chunk as the synthesis sequence yielded them

vars == <<queue, got, host, pc, out, voices, voice, pitch, rate,
          volume, logLevel, logSink, doc, stack, chunk, iter, fault, paused, last, outcome,
          audio, scan, raw>>

\* What no step of the command loop or of the traversal changes.
Fixed == <<host, audio, scan, raw>>

----------------------------------------------------------------------------
(* Bounds of the model. *)

MaxQueue == 1       \* lines waiting in the channel at once
MaxErrors == 2      \* errors one failed parse reports
MaxNodes == 3       \* markup nodes of a parsed document
MaxChunks == 2      \* chunks one synthesis sequence yields

----------------------------------------------------------------------------
(* Lines of the protocol. *)

INIT == <<"INIT">>
AUDIO == <<"AUDIO">>
LOGLEVEL == <<"LOGLEVEL">>
LISTVOICES == <<"LIST VOICES">>
SET == <<"SET">>
SPEAK == <<"SPEAK">>
STOP == <<"STOP">>
PAUSE == <<"PAUSE">>
DOT == <<".">>
DEBUGON == <<"DEBUG ON /tmp/piper.log">>

VoiceNames == {"amy", "bob"}

\* What the host may send, by the dialogue it is holding.
Vocabulary ==
    [ play     |-> {INIT, SPEAK, DOT, PAUSE, STOP},
      audio    |-> {INIT, AUDIO, <<"audio_output_method", "server">>,
                    <<"audio_output_method", "alsa">>, DOT, STOP},
      loglevel |-> {LOGLEVEL, <<"log_level", "3">>, <<"log_level", "9">>,
                    <<"log_level", "x">>, <<"verbosity", "1">>, <<"log_level">>, DOT},
      set      |-> {SET, <<"pitch", "50">>, <<"pitch", "banana">>,
                    <<"rate", "-50">>, <<"volume", "80">>, <<"pitch">>,
                    <<"synthesis_voice", "bob">>, <<"synthesis_voice", "zed">>, DOT},
      misc     |-> {INIT, LISTVOICES, DEBUGON, STOP, <<"QUIT">>} ]

Hosts == DOMAIN Vocabulary

Line(code, sep, text) == [code |-> code, sep |-> sep, text |-> text, at |-> <<>>]
NodeLine(code, sep, text, at) == [code |-> code, sep |-> sep, text |-> text, at |-> at]

\* io.rs send!: one line appended to stdout.
Send(lines, line) == Append(lines, line)

----------------------------------------------------------------------------
(* io.rs: the channel. *)

\* The line recv()/try_recv() returns and what stays in the channel.
Received(q) == Head(q)
RemainingPeeked(q) == q
Remaining(q) == Tail(q)

\* The process has ended, and its threads with it.
Ended == pc \in {"exited", "panicked"}

\* The reader thread sends the next line of stdin.  The host opens with one line
\* (INIT, if it keeps to the protocol) and then speaks the lines of its dialogue.
ReaderSend ==
    /\ ~Ended
    /\ Len(queue) < MaxQueue
    /\ pc = "init" => queue = <<>>
    /\ \E l \in (IF pc = "init" THEN {INIT, STOP} ELSE Vocabulary[host]) :
          queue' = Append(queue, l)
    /\ UNCHANGED <<got, Fixed, pc, out, voices, voice, pitch, rate, volume,
                   logLevel, logSink, doc, stack, chunk, iter, fault, paused, last, outcome>>

----------------------------------------------------------------------------
(* main.rs main() and the values start() computes. *)

Unit == 2 * 100     \* prosody factors are kept in units of 1/200: 1.0 is 200

NORMAL_PITCH == 1 * Unit
MIN_PITCH == Unit \div 2
MAX_PITCH == 2 * Unit
NORMAL_RATE == 1 * Unit
MIN_RATE == Unit \div 2
MAX_RATE == (9 * Unit) \div 2

Err == [ok |-> FALSE, val |-> 0]
Ok(v) == [ok |-> TRUE, val |-> v]

\* line.split_once('='): the key and the rest of the line.
HasKey(line) == Len(line) >= 2
Key(line) == line[1]
Value(line) == Tail(line)

\* value.parse::<usize>() on the values the hosts send.
ParseUsize(v) ==
    IF Len(v) # 1 THEN Err
    ELSE CASE v[1] = "1" -> Ok(1) [] v[1] = "2" -> Ok(2) [] v[1] = "3" -> Ok(3)
           [] v[1] = "4" -> Ok(4) [] v[1] = "5" -> Ok(5) [] v[1] = "9" -> Ok(9)
           [] OTHER -> Err

\* value.parse::<f32>() on the values the hosts send: the decimal numerals of
\* the whole percentages parse, to the number they write.
Numbers == -100..100
ParseF32(v) ==
    IF Len(v) = 1 /\ \E p \in Numbers : ToString(p) = v[1]
    THEN Ok(CHOOSE p \in Numbers : ToString(p) = v[1])
    ELSE Err

\* parsed / 100.0, in units of 1/200.
Percent(p) == (p * Unit) \div 100

PitchOf(p) ==
    IF Percent(p) < 0
    THEN NORMAL_PITCH + ((NORMAL_PITCH - MIN_PITCH) * Percent(p)) \div Unit
    ELSE NORMAL_PITCH + ((MAX_PITCH - NORMAL_PITCH) * Percent(p)) \div Unit

\* RateOf with the constants of the pitch arm.
RateOfPitch(p) ==
    IF Percent(p) < 0
    THEN NORMAL_PITCH + ((NORMAL_PITCH - MIN_PITCH) * Percent(p)) \div Unit
    ELSE NORMAL_PITCH + ((MAX_PITCH - NORMAL_PITCH) * Percent(p)) \div Unit

RateOf(p) ==
    IF Percent(p) < 0
    THEN NORMAL_RATE + ((NORMAL_RATE - MIN_RATE) * Percent(p)) \div Unit
    ELSE NORMAL_RATE + ((MAX_RATE - NORMAL_RATE) * Percent(p)) \div Unit

\* line.strip_prefix("DEBUG ON ")
IsDebugOn(line) == line = DEBUGON
DebugPath(line) == "/tmp/piper.log"

\* main(): start() returned Err(e): one 300- line per error of the chain, then the
\* terminating line.
RECURSIVE SendChain(_, _)
SendChain(lines, chain) ==
    IF chain = <<>> THEN lines
    ELSE SendChain(Send(lines, Line(300, "-", Head(chain))), Tail(chain))

MainErr(lines, chain) == Send(SendChain(lines, chain), Line(300, " ", "MODULE ERROR"))

\* `bail!`/`?` in start(): the process reports the error and exits.
Bail(lines, chain) ==
    /\ out' = MainErr(lines, chain)
    /\ pc' = "exited"

\* A recv!() that returns: the head of the channel is taken.
Take ==
    /\ queue' = Remaining(queue)
    /\ got' = [line |-> Received(queue), by |-> "recv"]
    /\ UNCHANGED Fixed

\* Nothing of a previous SPEAK is live when a command is read.
NoIteration == [at |-> <<>>, item |-> "none", got |-> <<>>]

NoPlayback ==
    /\ doc' = <<>>
    /\ stack' = <<>>
    /\ chunk' = 0
    /\ iter' = NoIteration
    /\ fault' = ""
    /\ paused' = <<>>
    /\ last' = <<>>
    /\ outcome' = "none"

Settings == <<voices, voice, pitch, rate, volume, logLevel, logSink>>
Playback == <<doc, stack, chunk, iter, fault, paused, last, outcome>>

\* What the voice directory may hold, by dialogue.
VoiceDirs ==
    [ play     |-> {{"amy"}},
      audio    |-> {{"amy"}},
      loglevel |-> {{"amy"}},
      set      |-> {{"amy"}, {"amy", "bob"}},
      misc     |-> {{}, {"amy", "bob"}} ]

\* start() up to the command loop: INIT, then voice discovery.
StartInit ==
    /\ pc = "init"
    /\ queue # <<>>
    /\ Take
    /\ UNCHANGED <<pitch, rate, volume, logLevel, logSink, Playback>>
    /\ IF Received(queue) # INIT
       THEN /\ Bail(<<>>, <<"Server did not start with INIT!">>)
            /\ UNCHANGED <<voices, voice>>
       ELSE LET ok == <<Line(299, "-", "Everything ok so far")>> IN
            \/ /\ Bail(ok, <<"Failed to resolve voice directory">>)
               /\ UNCHANGED <<voices, voice>>
            \/ /\ Bail(ok, <<"Failed to enumerate voices", "io error">>)
               /\ UNCHANGED <<voices, voice>>
            \/ \E dir \in VoiceDirs[host] :
                 IF dir = {}
                 THEN /\ Bail(ok, <<"No models available">>)
                      /\ UNCHANGED <<voices, voice>>
                 ELSE /\ voices' = [n \in dir |-> FALSE]
                      /\ \E first \in dir : voice' = first
                      /\ out' = Send(ok, Line(299, " ", "OK LOADED SUCCESSFULLY"))
                      /\ pc' = "loop"

\* recv!() when stdin has ended (the reader thread is gone, its Sender dropped)
\* and the channel is empty: recv() returns Err and unwrap() panics.
RecvClosed ==
    /\ pc \in {"init", "loop", "audio1", "audio2", "loglevel", "set", "body"}
    /\ queue = <<>>
    /\ pc' = "panicked"
    /\ out' = <<>>
    /\ UNCHANGED <<queue, got, Fixed, Settings, Playback>>

\* "AUDIO" =>
CmdAudio ==
    /\ pc = "loop"
    /\ queue # <<>>
    /\ Received(queue) = AUDIO
    /\ Take
    /\ NoPlayback
    /\ out' = <<Line(207, " ", "OK RECEIVING AUDIO SETTINGS")>>
    /\ pc' = "audio1"
    /\ UNCHANGED Settings

\* recv!() != "audio_output_method=server" || ...
AudioMethod ==
    /\ pc = "audio1"
    /\ queue # <<>>
    /\ Take
    /\ IF Received(queue) # <<"audio_output_method", "server">>
       THEN Bail(<<>>, <<"Audio output method must be server!">>)
       ELSE pc' = "audio2" /\ out' = <<>>
    /\ UNCHANGED <<Settings, Playback>>

\* ... || recv!() != "."
AudioEnd ==
    /\ pc = "audio2"
    /\ queue # <<>>
    /\ Take
    /\ IF Received(queue) # DOT
       THEN Bail(<<>>, <<"Audio output method must be server!">>)
       ELSE /\ out' = <<Line(203, " ", "OK AUDIO INITIALIZED")>>
            /\ pc' = "loop"
    /\ UNCHANGED <<Settings, Playback>>

\* "LOGLEVEL" =>
CmdLogLevel ==
    /\ pc = "loop"
    /\ queue # <<>>
    /\ Received(queue) = LOGLEVEL
    /\ Take
    /\ NoPlayback
    /\ out' = <<Line(207, " ", "OK RECEIVING LOGLEVEL SETTINGS")>>
    /\ pc' = "loglevel"
    /\ UNCHANGED Settings

\* One line of the LOGLEVEL dialogue.
LogLevelLine ==
    /\ pc = "loglevel"
    /\ queue # <<>>
    /\ Take
    /\ UNCHANGED <<voices, voice, pitch, rate, volume, logSink, Playback>>
    /\ LET line == Received(queue) IN
       IF line = DOT
       THEN /\ out' = <<Line(203, " ", "OK LOGLEVEL SET")>>
            /\ pc' = "loop"
            /\ UNCHANGED logLevel
       ELSE IF HasKey(line)
       THEN IF Key(line) = "log_level"
            THEN LET level == ParseUsize(Value(line)) IN
                 IF ~level.ok
                 THEN /\ Bail(<<>>, <<"Invalid value for log_level", "invalid digit">>)
                      /\ UNCHANGED logLevel
                 ELSE IF level.val \in 1..5
                 THEN /\ logLevel' = level.val
                      /\ out' = <<>> /\ UNCHANGED pc
                 ELSE /\ Bail(<<>>, <<"Invalid value for log_level">>)
                      /\ UNCHANGED logLevel
            ELSE out' = <<>> /\ UNCHANGED <<pc, logLevel>>
       ELSE /\ Bail(<<>>, <<"Malformed setting">>)
            /\ UNCHANGED logLevel

\* "LIST VOICES" =>: the voices whose config still opens and parses, in map order.
CmdListVoices ==
    /\ pc = "loop"
    /\ queue # <<>>
    /\ Received(queue) = LISTVOICES
    /\ Take
    /\ NoPlayback
    /\ \E listed \in SUBSET DOMAIN voices :
       \E order \in [1..Cardinality(listed) -> listed] :
          /\ \A i, j \in DOMAIN order : i # j => order[i] # order[j]
          /\ out' = Send([i \in DOMAIN order |-> Line(200, "-", order[i])],
                          Line(200, " ", "OK VOICE LIST SENT"))
    /\ UNCHANGED <<pc, Settings>>

\* "SET" =>
CmdSet ==
    /\ pc = "loop"
    /\ queue # <<>>
    /\ Received(queue) = SET
    /\ Take
    /\ NoPlayback
    /\ out' = <<Line(203, " ", "OK RECEIVING SETTINGS")>>
    /\ pc' = "set"
    /\ UNCHANGED Settings

\* SetVoice without the test of voices.contains_key.
SetVoiceUnchecked(value) == value[1]

\* "synthesis_voice" =>: the voice after the line, value being what follows '='.
SetVoice(value) ==
    IF Len(value) = 1 /\ value[1] \in DOMAIN voices THEN value[1] ELSE voice

\* One line of the SET dialogue.
SetLine ==
    /\ pc = "set"
    /\ queue # <<>>
    /\ Take
    /\ UNCHANGED <<voices, logLevel, logSink, Playback>>
    /\ LET line == Received(queue)
           num == ParseF32(Value(line))
       IN
       IF line = DOT
       THEN /\ out' = <<Line(203, " ", "OK SETTINGS RECEIVED")>>
            /\ pc' = "loop"
            /\ UNCHANGED <<voice, pitch, rate, volume>>
       ELSE IF ~HasKey(line)
       THEN /\ out' = <<Line(0, "", "Ignoring improperly formatted keypair")>>
            /\ UNCHANGED <<pc, voice, pitch, rate, volume>>
       ELSE CASE Key(line) = "pitch" ->
                   IF num.ok
                   THEN pitch' = PitchOf(num.val) /\ out' = <<>> /\ UNCHANGED <<pc, voice, rate, volume>>
                   ELSE /\ Bail(<<>>, <<"Invalid value for pitch", "invalid float literal">>)
                        /\ UNCHANGED <<voice, pitch, rate, volume>>
              [] Key(line) = "rate" ->
                   IF num.ok
                   THEN rate' = RateOf(num.val) /\ out' = <<>> /\ UNCHANGED <<pc, voice, pitch, volume>>
                   ELSE /\ Bail(<<>>, <<"Invalid value for rate", "invalid float literal">>)
                        /\ UNCHANGED <<voice, pitch, rate, volume>>
              [] Key(line) = "volume" ->
                   IF num.ok
                   THEN volume' = Percent(num.val) /\ out' = <<>> /\ UNCHANGED <<pc, voice, pitch, rate>>
                   ELSE /\ Bail(<<>>, <<"Invalid value for volume", "invalid float literal">>)
                        /\ UNCHANGED <<voice, pitch, rate, volume>>
              [] Key(line) = "synthesis_voice" ->
                   /\ voice' = SetVoice(Value(line))
                   /\ out' = <<>> /\ UNCHANGED <<pc, pitch, rate, volume>>
              [] OTHER -> out' = <<>> /\ UNCHANGED <<pc, voice, pitch, rate, volume>>

\* line if let Some(path) = line.strip_prefix("DEBUG ON ") =>
CmdDebugOn ==
    /\ pc = "loop"
    /\ queue # <<>>
    /\ IsDebugOn(Received(queue))
    /\ Take
    /\ NoPlayback
    /\ UNCHANGED <<voices, voice, pitch, rate, volume, logLevel>>
    /\ \/ /\ Bail(<<>>, <<"Error opening log file", "io error">>)
          /\ UNCHANGED logSink
       \/ /\ logSink' = DebugPath(Received(queue))
          /\ out' = <<Line(200, " ", "OK DEBUGGING ON")>>
          /\ UNCHANGED pc

\* The arms of the command match that name a command.
Known(line) == line \in {AUDIO, LOGLEVEL, LISTVOICES, SET, SPEAK} \/ IsDebugOn(line)

\* _ => send!("300 ERR UNKNOWN COMMAND")
CmdUnknown ==
    /\ pc = "loop"
    /\ queue # <<>>
    /\ ~Known(Received(queue))
    /\ Take
    /\ NoPlayback
    /\ out' = <<Line(300, " ", "ERR UNKNOWN COMMAND")>>
    /\ UNCHANGED <<pc, Settings>>

----------------------------------------------------------------------------
(* Markup documents: what serde_ssml::from_str hands to speak(). *)

Leaf(kind) == [kind |-> kind, children |-> <<>>]
Container(children) == [kind |-> "Speak", children |-> children]

\* The sequences of elements with n nodes in all, and the elements with n nodes.
RECURSIVE Forests(_), Trees(_)
Forests(n) ==
    IF n = 0 THEN {<<>>}
    ELSE UNION {{<<t>> \o f : t \in Trees(m), f \in Forests(n - m)} : m \in 1..n}
Trees(n) ==
    (IF n = 1 THEN {Leaf("Text"), Leaf("Mark"), Leaf("Other")} ELSE {})
        \cup {Container(c) : c \in Forests(n - 1)}

\* speak() panics at the first element it does not implement and never looks at
\* what follows it, so the documents differ only up to that element.
RECURSIVE HasOther(_), Normal(_)
HasOther(e) == e.kind = "Other" \/ \E i \in DOMAIN e.children : HasOther(e.children[i])
Normal(elements) ==
    \A i \in DOMAIN elements :
       /\ i < Len(elements) => ~HasOther(elements[i])
       /\ Normal(elements[i].children)

Docs == {d \in UNION {Forests(n) : n \in 0..MaxNodes} : Normal(d)}

\* The children of the element at `path` below `elements`.
RECURSIVE ElementsAt(_, _)
ElementsAt(elements, path) ==
    IF path = <<>> THEN elements
    ELSE ElementsAt(elements[Head(path)].children, Tail(path))

Path(stk) == [i \in 1..Len(stk) |-> stk[i].idx]
Front(stk) == SubSeq(stk, 1, Len(stk) - 1)
Top(stk) == stk[Len(stk)]

\* `elements` of the innermost call of speak(), and the element its loop is at.
Elements == ElementsAt(doc, Path(Front(stack)))
AtEnd == Top(stack).idx > Len(Elements)
Element == Elements[Top(stack).idx]

\* The place of chunk k of the element the innermost call is at (k = 0: the mark).
Place(stk, k) == Append(Path(stk), k)

----------------------------------------------------------------------------
(* main.rs speak() and the SPEAK arm of start(). *)

\* "SPEAK" =>
CmdSpeak ==
    /\ pc = "loop"
    /\ queue # <<>>
    /\ Received(queue) = SPEAK
    /\ Take
    /\ NoPlayback
    /\ out' = <<Line(202, " ", "OK RECEIVING MESSAGE")>>
    /\ pc' = "body"
    /\ UNCHANGED Settings

\* A line of the message is appended to buf.
SpeakBody ==
    /\ pc = "body"
    /\ queue # <<>>
    /\ Received(queue) # DOT
    /\ Take
    /\ out' = <<>>
    /\ UNCHANGED <<pc, Settings, Playback>>

\* The errors serde_ssml reports, folded over Err("SSML parsing failed").
ParseFailure(n) == [i \in 1..(n + 1) |-> IF i <= n THEN "parse error" ELSE "SSML parsing failed"]

\* The first call of speak(): at its first element, no pause requested.
Called == [idx |-> 1, sp |-> FALSE]

\* "." ends the message: it is parsed, and speak() is called on its elements.
SpeakParse ==
    /\ pc = "body"
    /\ queue # <<>>
    /\ Received(queue) = DOT
    /\ Take
    /\ UNCHANGED <<Settings, chunk, iter, fault, paused, last, outcome>>
    /\ \/ /\ \E n \in 1..MaxErrors : Bail(<<>>, ParseFailure(n))
          /\ UNCHANGED <<doc, stack>>
       \/ /\ \E d \in Docs : doc' = d
          /\ out' = <<Line(200, " ", "OK SPEAKING"), Line(701, " ", "BEGIN")>>
          /\ stack' = <<Called>>
          /\ pc' = "speak"

\* Status with a status of its own for a paused message.
StatusPaused(lines, r, error) ==
    CASE r = "End" -> Send(lines, Line(702, " ", "END"))
      [] r \in {"PauseHandled", "PauseUnhandled"} -> Send(lines, Line(704, " ", "PAUSE"))
      [] r = "Stop" -> Send(lines, Line(703, " ", "STOP"))
      [] r = "Err" -> Send(Send(lines, Line(703, "-", error)), Line(703, " ", "STOP"))

\* The match on what speak() returned, in the SPEAK arm.
Status(lines, r, error) ==
    CASE r \in {"End", "PauseHandled", "PauseUnhandled"} -> Send(lines, Line(702, " ", "END"))
      [] r = "Stop" -> Send(lines, Line(703, " ", "STOP"))
      [] r = "Err" -> Send(Send(lines, Line(703, "-", error)), Line(703, " ", "STOP"))

\* AfterChild with the error of the recursive call dropped instead of returned.
AfterChildErrContinues(frame, r) ==
    CASE r \in {"End", "Err"} ->
            [ret |-> "none", frame |-> [idx |-> frame.idx + 1, sp |-> frame.sp]]
      [] r = "Stop" -> [ret |-> "Stop", frame |-> frame]
      [] r = "PauseHandled" -> [ret |-> "PauseHandled", frame |-> frame]
      [] r = "PauseUnhandled" -> [ret |-> "none", frame |-> [idx |-> frame.idx + 1, sp |-> TRUE]]

\* AfterChild with the End arm running the same child again.
AfterChildRepeats(frame, r) ==
    CASE r = "End" -> [ret |-> "none", frame |-> frame]
      [] r = "Stop" -> [ret |-> "Stop", frame |-> frame]
      [] r = "PauseHandled" -> [ret |-> "PauseHandled", frame |-> frame]
      [] r = "PauseUnhandled" -> [ret |-> "none", frame |-> [idx |-> frame.idx + 1, sp |-> TRUE]]
      [] r = "Err" -> [ret |-> "Err", frame |-> frame]

\* AfterChild with a pending pause turning the child's Stop into a pause.
AfterChildPauseWins(frame, r) ==
    CASE r = "End" -> [ret |-> "none", frame |-> [idx |-> frame.idx + 1, sp |-> frame.sp]]
      [] r = "Stop" -> [ret |-> IF frame.sp THEN "PauseHandled" ELSE "Stop", frame |-> frame]
      [] r = "PauseHandled" -> [ret |-> "PauseHandled", frame |-> frame]
      [] r = "PauseUnhandled" -> [ret |-> "none", frame |-> [idx |-> frame.idx + 1, sp |-> TRUE]]
      [] r = "Err" -> [ret |-> "Err", frame |-> frame]

\* AfterChild with the Stop arm going on with the next sibling.
AfterChildStopContinues(frame, r) ==
    CASE r \in {"End", "Stop"} ->
            [ret |-> "none", frame |-> [idx |-> frame.idx + 1, sp |-> frame.sp]]
      [] r = "PauseHandled" -> [ret |-> "PauseHandled", frame |-> frame]
      [] r = "PauseUnhandled" -> [ret |-> "none", frame |-> [idx |-> frame.idx + 1, sp |-> TRUE]]
      [] r = "Err" -> [ret |-> "Err", frame |-> frame]

\* The match on what the recursive call returned: `ret` is what this call returns
\* at once ("none" when its loop goes on, with the frame given).
AfterChild(frame, r) ==
    CASE r = "End" -> [ret |-> "none", frame |-> [idx |-> frame.idx + 1, sp |-> frame.sp]]
      [] r = "Stop" -> [ret |-> "Stop", frame |-> frame]
      [] r = "PauseHandled" -> [ret |-> "PauseHandled", frame |-> frame]
      [] r = "PauseUnhandled" -> [ret |-> "none", frame |-> [idx |-> frame.idx + 1, sp |-> TRUE]]
      [] r = "Err" -> [ret |-> "Err", frame |-> frame]

\* The innermost call of `stk` returns r: the calls left, and what the outermost
\* call returned if it did.
RECURSIVE Return(_, _)
Return(stk, r) ==
    IF Len(stk) = 1 THEN [stack |-> <<>>, outcome |-> r]
    ELSE LET after == AfterChild(Top(Front(stk)), r) IN
         IF after.ret = "none"
         THEN [stack |-> Append(Front(Front(stk)), after.frame), outcome |-> "none"]
         ELSE Return(Front(stk), after.ret)

\* The innermost call returns r, the step having written `lines` so far.
Returns(lines, r, error) ==
    LET ret == Return(stack, r) IN
    /\ stack' = ret.stack
    /\ outcome' = ret.outcome
    /\ chunk' = 0
    /\ IF ret.outcome = "none"
       THEN out' = lines /\ pc' = "speak"
       ELSE out' = Status(lines, ret.outcome, error) /\ pc' = "loop"

\* The loop of the innermost call moves to its next element.
Advance(stk) == [stk EXCEPT ![Len(stk)].idx = @ + 1]

\* What the end of the loop returns.
AtEndResult(sp) == IF sp THEN "PauseUnhandled" ELSE "End"

\* The loop has run out of elements.
SpeakEnd ==
    /\ pc = "speak"
    /\ AtEnd
    /\ Returns(<<>>, AtEndResult(Top(stack).sp), "")
    /\ UNCHANGED <<queue, got, Fixed, Settings, doc, iter, fault, paused, last>>

\* SsmlElement::Speak { children, .. } =>
SpeakContainer ==
    /\ pc = "speak"
    /\ ~AtEnd
    /\ Element.kind = "Speak"
    /\ stack' = Append(stack, Called)
    /\ out' = <<>>
    /\ UNCHANGED <<queue, got, Fixed, pc, Settings, doc, chunk, iter, fault, paused, last, outcome>>

\* AfterMark without the test of should_pause.
AfterMarkIgnoresPause(sp) == "none"

\* What the Mark arm returns once the mark is sent ("none": the loop goes on).
AfterMark(sp) == IF sp THEN "PauseHandled" ELSE "none"

MarkLines(at) == <<NodeLine(700, "-", "mark", at), NodeLine(700, " ", "INDEX MARK", at)>>

\* SsmlElement::Mark { name } =>
SpeakMark ==
    /\ pc = "speak"
    /\ ~AtEnd
    /\ Element.kind = "Mark"
    /\ last' = Place(stack, 0)
    /\ IF AfterMark(Top(stack).sp) = "none"
       THEN /\ stack' = Advance(stack)
            /\ out' = MarkLines(Place(stack, 0))
            /\ UNCHANGED <<pc, chunk, outcome>>
       ELSE Returns(MarkLines(Place(stack, 0)), AfterMark(Top(stack).sp), "")
    /\ UNCHANGED <<queue, got, Fixed, Settings, doc, iter, fault, paused>>

\* _ => unimplemented!()
SpeakOther ==
    /\ pc = "speak"
    /\ ~AtEnd
    /\ Element.kind = "Other"
    /\ pc' = "panicked"
    /\ out' = <<>>
    /\ UNCHANGED <<queue, got, Fixed, Settings, Playback>>

\* Insert that drops the synthesizer once it is used.
InsertNothing(name) == [voices EXCEPT ![name] = FALSE]

\* voices[voice].1 after the match on it: the synthesizer is there, found or put
\* there by insert().
Insert(name) == [voices EXCEPT ![name] = TRUE]

\* SsmlElement::Text(text) =>, up to the loop over the synthesis sequence: the
\* synthesizer of the voice is taken from the cache or built, and synthesis starts.
SpeakText ==
    /\ pc = "speak"
    /\ ~AtEnd
    /\ Element.kind = "Text"
    /\ UNCHANGED <<queue, got, Fixed, voice, pitch, rate, volume, logLevel, logSink,
                   doc, iter, paused, last>>
    /\ \/ /\ ~voices[voice]
          /\ \E error \in {"Failed to parse model config", "Failed to initialize model"} :
                /\ Returns(<<>>, "Err", error)
                /\ fault' = error
          /\ UNCHANGED voices
       \/ /\ voices' = Insert(voice)
          /\ \/ /\ Returns(<<>>, "Err", "synthesis failed")
                /\ fault' = "synthesis failed"
             \/ /\ pc' = "chunk"
                /\ chunk' = 0
                /\ out' = <<>>
                /\ UNCHANGED <<stack, outcome, fault>>

\* Interrupt that passes over a line that is neither STOP nor PAUSE.
InterruptSkipsOthers(line) ==
    CASE line = STOP -> "Stop"
      [] OTHER -> "Pause"

\* Interrupt that goes on to send the chunk when the line is STOP.
InterruptStopAsPause(line) ==
    CASE line = STOP -> "Pause"
      [] line = PAUSE -> "Pause"
      [] OTHER -> "Err"

\* What the interrupt check makes of the line try_recv!() returned.
Interrupt(line) ==
    CASE line = STOP -> "Stop"
      [] line = PAUSE -> "Pause"
      [] OTHER -> "Err"

\* Frame without the line that ends the block.
FrameUnterminated(at) ==
    << NodeLine(705, "-", "bits", at), NodeLine(705, "-", "num_channels", at),
       NodeLine(705, "-", "sample_rate", at), NodeLine(705, "-", "num_samples", at),
       NodeLine(705, "-", "AUDIO", at) >>

\* One chunk, framed.
Frame(at) ==
    << NodeLine(705, "-", "bits", at), NodeLine(705, "-", "num_channels", at),
       NodeLine(705, "-", "sample_rate", at), NodeLine(705, "-", "num_samples", at),
       NodeLine(705, "-", "AUDIO", at), NodeLine(705, " ", "AUDIO", at) >>

Iteration(at, item, line) == [at |-> at, item |-> item, got |-> line]

\* The item the synthesis sequence yielded is an Err.
Failed(item) == IF item = "err" THEN "chunk failed" ELSE ""

\* The synthesis sequence is exhausted: the Text arm is done.
SpeakTextEnd ==
    /\ pc = "chunk"
    /\ stack' = Advance(stack)
    /\ pc' = "speak"
    /\ chunk' = 0
    /\ out' = <<>>
    /\ UNCHANGED <<queue, got, Fixed, Settings, doc, iter, fault, paused, last, outcome>>

\* `let mut audio = audio?;` and the sends after it: the chunk is sent, or its
\* error returned.
Unwrap(at, item) ==
    IF item = "err"
    THEN /\ Returns(<<>>, "Err", "chunk failed")
         /\ UNCHANGED last
    ELSE /\ out' = Frame(at)
         /\ last' = at
         /\ chunk' = chunk + 1
         /\ UNCHANGED <<pc, outcome>>

\* One iteration of `for audio in output`: the sequence yields an item, the
\* interrupt check runs, then the item is unwrapped and sent.
SpeakChunk ==
    /\ pc = "chunk"
    /\ chunk < MaxChunks
    /\ UNCHANGED <<Fixed, Settings, doc>>
    /\ \E item \in {"ok", "err"} :
       LET at == Place(stack, chunk + 1) IN
       IF queue = <<>>
       THEN /\ UNCHANGED <<queue, got, paused>>
            /\ \/ \* Err(TryRecvError::Disconnected) => unreachable!(): stdin has ended
                  /\ pc' = "panicked"
                  /\ out' = <<>>
                  /\ UNCHANGED <<stack, chunk, iter, fault, last, outcome>>
               \/ \* Err(TryRecvError::Empty) => None
                  /\ iter' = Iteration(at, item, <<>>)
                  /\ fault' = Failed(item)
                  /\ Unwrap(at, item)
                  /\ item = "ok" => UNCHANGED stack
       ELSE /\ queue' = Remaining(queue)
            /\ got' = [line |-> Received(queue), by |-> "try_recv"]
            /\ iter' = Iteration(at, item, Received(queue))
            /\ fault' = Failed(item)
            /\ CASE Interrupt(Received(queue)) = "Stop" ->
                        /\ Returns(<<>>, "Stop", "")
                        /\ UNCHANGED <<paused, last>>
                 [] Interrupt(Received(queue)) = "Err" ->
                        /\ Returns(<<>>, "Err", "Unexpected command during playback")
                        /\ UNCHANGED <<paused, last>>
                 [] Interrupt(Received(queue)) = "Pause" ->
                        /\ paused' = IF paused = <<>> THEN at ELSE paused
                        /\ Unwrap(at, item)
                        /\ item = "ok" => stack' = [stack EXCEPT ![Len(stack)].sp = TRUE]

----------------------------------------------------------------------------
(* main.rs speak(): the escaping of a chunk, byte by byte. *)

MaxBytes == 3       \* bytes of a chunk

\* The bytes a chunk is made of: '\n', '}', the two bytes they are turned into,
\* and a byte the escaping has nothing to do with.
Bytes == {10, 125, 42, 93, 65}

Buffers == UNION {[1..n -> Bytes] : n \in 0..MaxBytes}

\* b ^ (1 << 5)
Xor32(b) == IF (b \div 32) % 2 = 1 THEN b - 32 ELSE b + 32

\* EscapeAt with the marker put after the byte it announces.
EscapeAtMarkerAfter(bytes, i) ==
    IF bytes[i + 1] = 10 \/ bytes[i + 1] = 125
    THEN SubSeq(bytes, 1, i) \o <<Xor32(bytes[i + 1]), 125>>
            \o SubSeq(bytes, i + 2, Len(bytes))
    ELSE bytes

\* The body of `for i in (0..audio.len()).rev()`, i being 0-based: bytes[i + 1].
EscapeAt(bytes, i) ==
    IF bytes[i + 1] = 10 \/ bytes[i + 1] = 125
    THEN SubSeq(bytes, 1, i) \o <<125, Xor32(bytes[i + 1])>>
            \o SubSeq(bytes, i + 2, Len(bytes))
    ELSE bytes

\* A chunk as SpeakChunk has it after `let mut audio = audio?;`: one Text being
\* played, its synthesizer cached.
CodecInit ==
    /\ queue = <<>>
    /\ got = [line |-> DOT, by |-> "recv"]
    /\ host = "play"
    /\ pc = "chunk"
    /\ out = <<>>
    /\ voices = [n \in {"amy"} |-> TRUE]
    /\ voice = "amy"
    /\ pitch = 1 * Unit
    /\ rate = 1 * Unit
    /\ volume = 1 * Unit
    /\ logLevel = 2
    /\ logSink = "stderr"
    /\ doc = <<Leaf("Text")>>
    /\ stack = <<Called>>
    /\ chunk = 0
    /\ iter = Iteration(<<1, 1>>, "ok", <<>>)
    /\ fault = ""
    /\ paused = <<>>
    /\ last = <<>>
    /\ outcome = "none"
    /\ raw \in Buffers
    /\ audio = raw
    /\ scan = Len(raw)

\* One iteration of the escaping loop, at i = scan - 1.
EscapeStep ==
    /\ scan > 0
    /\ audio' = EscapeAt(audio, scan - 1)
    /\ scan' = scan - 1
    /\ UNCHANGED <<queue, got, host, pc, out, Settings, Playback, raw>>

CodecNext == EscapeStep

CodecSpec == CodecInit /\ [][CodecNext]_vars

----------------------------------------------------------------------------
(* main.rs start(): the pitch and rate arms of SET, on the percentages. *)

MaxSteps == 4       \* percentages tried on each side of 0

Percents == {(100 * k) \div MaxSteps : k \in -MaxSteps..MaxSteps}

ProsodyLines ==
    {<<"pitch", ToString(p)>> : p \in Percents} \cup {<<"rate", ToString(p)>> : p \in Percents}

\* A SET dialogue about to read a pitch or rate line, whatever pitch and rate
\* earlier lines have left.
ProsodyInit ==
    /\ queue \in {<<line>> : line \in ProsodyLines}
    /\ got = [line |-> SET, by |-> "recv"]
    /\ host = "set"
    /\ pc = "set"
    /\ out = <<Line(203, " ", "OK RECEIVING SETTINGS")>>
    /\ voices = [n \in {"amy"} |-> FALSE]
    /\ voice = "amy"
    /\ pitch \in {PitchOf(p) : p \in Percents}
    /\ rate \in {RateOf(p) : p \in Percents}
    /\ volume = 1 * Unit
    /\ logLevel = 2
    /\ logSink = "stderr"
    /\ doc = <<>>
    /\ stack = <<>>
    /\ chunk = 0
    /\ iter = NoIteration
    /\ fault = ""
    /\ paused = <<>>
    /\ last = <<>>
    /\ outcome = "none"
    /\ audio = <<>>
    /\ scan = 0
    /\ raw = <<>>

ProsodyNext == SetLine

ProsodySpec == ProsodyInit /\ [][ProsodyNext]_vars

----------------------------------------------------------------------------

Init ==
    /\ queue = <<>>
    /\ got = [line |-> <<>>, by |-> "none"]
    /\ host \in Hosts
    /\ pc = "init"
    /\ out = <<>>
    /\ voices = <<>>
    /\ voice = ""
    /\ pitch = 1 * Unit
    /\ rate = 1 * Unit
    /\ volume = 1 * Unit
    /\ logLevel = 2
    /\ logSink = "stderr"
    /\ doc = <<>>
    /\ stack = <<>>
    /\ chunk = 0
    /\ iter = NoIteration
    /\ fault = ""
    /\ paused = <<>>
    /\ last = <<>>
    /\ outcome = "none"
    /\ audio = <<>>
    /\ scan = 0
    /\ raw = <<>>

Next ==
    \/ ReaderSend \/ RecvClosed
    \/ StartInit
    \/ CmdAudio \/ AudioMethod \/ AudioEnd
    \/ CmdLogLevel \/ LogLevelLine
    \/ CmdListVoices
    \/ CmdSet \/ SetLine
    \/ CmdSpeak \/ SpeakBody \/ SpeakParse
    \/ CmdDebugOn
    \/ CmdUnknown
    \/ SpeakEnd \/ SpeakContainer \/ SpeakMark \/ SpeakOther \/ SpeakText
    \/ SpeakTextEnd \/ SpeakChunk

Spec == Init /\ [][Next]_vars

----------------------------------------------------------------------------
(* Properties. *)

Playing == pc \in {"speak", "chunk"}

\* Place a comes before place b in document order.
RECURSIVE Before(_, _)
Before(a, b) ==
    IF a = <<>> THEN b # <<>>
    ELSE IF b = <<>> THEN FALSE
    ELSE IF a[1] # b[1] THEN a[1] < b[1]
    ELSE Before(Tail(a), Tail(b))

\* The document is a single-level sequence of Text and Mark nodes.
Flat == \A i \in DOMAIN doc : doc[i].kind \in {"Text", "Mark"}

MarksAfter(i) == {j \in DOMAIN doc : j > i /\ doc[j].kind = "Mark"}
NextMark(i) == CHOOSE j \in MarksAfter(i) : \A m \in MarksAfter(i) : j <= m

\* C1, as claimed: in a flat document, once PAUSE has been received at a chunk
\* of a Text, every chunk pulled from then on is sent, speak() does not go past
\* the next Mark, and when it returns it returns Pause(handled=true), the last
\* thing sent being that Mark.
C1_AsClaimed ==
    (Flat /\ paused # <<>>) =>
        /\ ~Before(last, iter.at)
        /\ MarksAfter(paused[1]) # {} =>
              /\ Playing => stack[1].idx <= NextMark(paused[1])
              /\ outcome # "none" =>
                    /\ outcome = "PauseHandled"
                    /\ last = <<NextMark(paused[1]), 0>>

\* C1, amended: the same, unless a later interrupt check receives STOP or a line
\* that is no command of playback, or synthesis fails, before that Mark: a chunk
\* is sent if it is Ok and the check before it received nothing or PAUSE, and
\* speak() returns Pause(handled=true) at the Mark unless it has returned Stop or
\* an error before.
C1_PauseAtNextMark ==
    (Flat /\ paused # <<>>) =>
        /\ (iter.item = "ok" /\ iter.got \in {<<>>, PAUSE}) => ~Before(last, iter.at)
        /\ MarksAfter(paused[1]) # {} =>
              /\ Playing => stack[1].idx <= NextMark(paused[1])
              /\ outcome \notin {"none", "Stop", "Err"} =>
                    /\ outcome = "PauseHandled"
                    /\ last = <<NextMark(paused[1]), 0>>

\* [Text, Mark, Text, ..]: PAUSE came at a chunk of the Text, a later chunk of it
\* was sent, speak() returned Pause(handled=true) at the Mark, a Text follows.
C1_Witness ==
    /\ Flat
    /\ paused # <<>>
    /\ outcome = "PauseHandled"
    /\ iter.at[1] = paused[1] /\ iter.at[2] > paused[2]
    /\ last[1] < Len(doc)
    /\ doc[last[1] + 1].kind = "Text"

\* C2: once the interrupt check has received STOP, speak() has returned Stop out
\* of every call, the chunk pulled in that iteration was not sent, and all that
\* was written is 703 STOP.
C2_StopPropagation ==
    (got.by = "try_recv" /\ got.line = STOP) =>
        /\ outcome = "Stop"
        /\ stack = <<>>
        /\ ~Playing
        /\ iter.got = STOP
        /\ last # iter.at
        /\ pc = "loop" => out = <<Line(703, " ", "STOP")>>

\* STOP received in a Text inside a container that has a later sibling.
C2_Witness ==
    /\ got.by = "try_recv" /\ got.line = STOP
    /\ pc = "loop"
    /\ Len(iter.at) >= 3
    /\ iter.at[1] < Len(doc)

Malformed ==
    /\ queue # <<>>
    /\ \/ pc = "audio1" /\ Head(queue) # <<"audio_output_method", "server">>
       \/ /\ pc = "loglevel"
          /\ Head(queue) # DOT
          /\ \/ ~HasKey(Head(queue))
             \/ /\ Key(Head(queue)) = "log_level"
                /\ ~(ParseUsize(Value(Head(queue))).ok
                        /\ ParseUsize(Value(Head(queue))).val \in 1..5)

\* C4, as claimed: a malformed line of a sub-dialogue is answered and the
\* dispatcher goes on to read the next command.
C4_AsClaimed ==
    [][(Malformed /\ queue' = Tail(queue)) => (pc' = "loop" /\ out' # <<>>)]_vars

\* C5, as claimed: pitch=banana in a SET dialogue leaves pitch as it was and the
\* dispatcher serving.
C5_AsClaimed ==
    [][(pc = "set" /\ queue # <<>> /\ Head(queue) = <<"pitch", "banana">>
            /\ queue' = Tail(queue))
         => (pc' \in {"set", "loop"} /\ pitch' = pitch)]_vars

\* C6, as claimed: a parse failure is reported in the 703 family and the
\* dispatcher goes on.
C6_AsClaimed ==
    \A i \in DOMAIN out :
       out[i].text = "SSML parsing failed" => (out[i].code = 703 /\ pc = "loop")

\* What the SPEAK arm writes last for an error.
ErrorLines(detail) == <<Line(703, "-", detail), Line(703, " ", "STOP")>>

\* C7, as claimed: once anything has failed in speak(), every call has returned
\* the error, nothing more was sent, and the SPEAK arm wrote 703-<detail> and
\* 703 STOP.
C7_AsClaimed ==
    fault # "" =>
        /\ outcome = "Err"
        /\ stack = <<>>
        /\ ~Playing
        /\ pc = "loop" => \E detail \in {fault, "Unexpected command during playback"} :
                             out = ErrorLines(detail)

\* C7, amended: the same, except that a chunk that fails in an iteration whose
\* interrupt check received STOP is never looked at: speak() returns Stop and
\* 703 STOP alone is written.  The failed chunk is not sent in either case.
C7_ErrorsUnwind ==
    fault # "" =>
        /\ stack = <<>>
        /\ ~Playing
        /\ fault = "chunk failed" => last # iter.at
        /\ IF fault = "chunk failed" /\ iter.got = STOP
           THEN /\ outcome = "Stop"
                /\ pc = "loop" => out = <<Line(703, " ", "STOP")>>
           ELSE /\ outcome = "Err"
                /\ pc = "loop" =>
                      out = ErrorLines(IF fault = "chunk failed" /\ iter.got \notin {<<>>, PAUSE}
                                       THEN "Unexpected command during playback"
                                       ELSE fault)

\* A chunk failed in a Text inside a container with a later sibling; the error
\* came out of both calls.
C7_Witness ==
    /\ fault = "chunk failed"
    /\ outcome = "Err"
    /\ pc = "loop"
    /\ Len(iter.at) >= 3
    /\ iter.at[1] < Len(doc)

\* C8, as claimed: STOP read as a command writes nothing and changes nothing.
C8_AsClaimed ==
    [][(pc = "loop" /\ queue # <<>> /\ Head(queue) = STOP /\ queue' = Tail(queue))
         => (out' = <<>> /\ pc' = "loop" /\ UNCHANGED Settings)]_vars

Terminator(l) == l.code \in {702, 703} /\ l.sep = " "

\* C9: a SPEAK that parses writes 200 OK SPEAKING and 701 BEGIN as speak() is
\* called; no terminating status is written while speak() runs; the step in
\* which it returns writes exactly one, last: 703 STOP for Stop or an error,
\* 702 END for End and both kinds of Pause; no paused status (704) is written.
C9_OutcomeToStatus ==
    /\ (pc = "speak" /\ stack = <<Called>>) =>
           out = <<Line(200, " ", "OK SPEAKING"), Line(701, " ", "BEGIN")>>
    /\ Playing => (outcome = "none" /\ \A i \in DOMAIN out : ~Terminator(out[i]))
    /\ (outcome = "none" /\ ~Playing) => \A i \in DOMAIN out : ~Terminator(out[i])
    /\ (outcome # "none" /\ pc = "loop") =>
           /\ out # <<>>
           /\ \A i \in DOMAIN out : Terminator(out[i]) <=> i = Len(out)
           /\ out[Len(out)] = IF outcome \in {"Stop", "Err"}
                              THEN Line(703, " ", "STOP")
                              ELSE Line(702, " ", "END")
    /\ \A i \in DOMAIN out : out[i].code # 704

\* speak() returned Pause(handled=false) and 702 END was written.
C9_Witness ==
    /\ outcome = "PauseUnhandled"
    /\ pc = "loop"
    /\ out = <<Line(702, " ", "END")>>

\* The element at a place of the document.
ElementAt(d, place) ==
    ElementsAt(d, SubSeq(place, 1, Len(place) - 2))[place[Len(place) - 1]]

\* C10: each mark or chunk sent lies after the one sent before it in document
\* order, a chunk directly after the chunk before it of the same Text; a mark
\* is sent for a Mark and a chunk for a Text; a step writes mark and audio lines
\* for the place it sends and for no other.
C10_EmissionOrder ==
    [][ /\ (last' # last /\ last' # <<>>) =>
              /\ last = <<>> \/ Before(last, last')
              /\ ElementAt(doc', last').kind =
                    (IF last'[Len(last')] = 0 THEN "Mark" ELSE "Text")
              /\ last'[Len(last')] > 1 =>
                    last = [last' EXCEPT ![Len(last')] = @ - 1]
              /\ \E i \in DOMAIN out' : out'[i].at = last'
        /\ \A i \in DOMAIN out' :
              (out'[i].at # <<>> /\ out' # out) => (out'[i].at = last' /\ last' # last)
      ]_vars

\* A Mark inside a container was sent after a chunk of an earlier Text.
C10_Witness ==
    /\ last # <<>>
    /\ last[Len(last)] = 0
    /\ Len(last) >= 3
    /\ iter.item = "ok"
    /\ Before(iter.at, last)

\* A SPEAK of one Text in which no line was polled and nothing failed.
Plain == doc = <<Leaf("Text")>>
Quiet == fault = "" /\ paused = <<>> /\ iter.got = <<>>

\* The lines of one 705 block: four metadata lines, the payload, the terminator.
IsAudioBlock(lines, at) ==
    /\ Len(lines) = 6
    /\ \A i \in 1..6 : lines[i].code = 705 /\ lines[i].at = at
    /\ \A i \in 1..5 : lines[i].sep = "-"
    /\ lines[6].sep = " "
    /\ <<lines[1].text, lines[2].text, lines[3].text, lines[4].text>> =
          <<"bits", "num_channels", "sample_rate", "num_samples">>
    /\ lines[5].text = "AUDIO" /\ lines[6].text = "AUDIO"

\* What a SPEAK of one Text has written at each point, with nothing polled and
\* nothing failing.
PlainResponse ==
    (Plain /\ Quiet) =>
       /\ (pc = "speak" /\ stack[1].idx = 1) =>
             out = <<Line(200, " ", "OK SPEAKING"), Line(701, " ", "BEGIN")>>
       /\ pc = "chunk" =>
             /\ chunk = 0 => (out = <<>> /\ last = <<>>)
             /\ chunk > 0 => (IsAudioBlock(out, <<1, chunk>>) /\ last = <<1, chunk>>)
       /\ (pc = "speak" /\ stack[1].idx = 2) =>
             (out = <<>> /\ last = iter.at)
       /\ ~Playing =>
             /\ outcome \in {"none", "End"}
             /\ (outcome = "End" /\ pc = "loop") =>
                   (out = <<Line(702, " ", "END")>> /\ last = iter.at)

\* C11: the step that takes INIT and reaches the command loop writes the two 299
\* lines and nothing else; a SPEAK of one Text, with nothing polled and nothing
\* failing, writes 200 OK SPEAKING and 701 BEGIN, then one 705 block per chunk
\* the synthesis sequence yields, in order, then 702 END alone.
C11_EndToEnd ==
    [][ /\ (pc = "init" /\ pc' = "loop") =>
              out' = <<Line(299, "-", "Everything ok so far"),
                       Line(299, " ", "OK LOADED SUCCESSFULLY")>>
        /\ PlainResponse'
        /\ (Plain /\ Quiet /\ pc = "chunk" /\ chunk' = chunk + 1) =>
              (Plain' /\ pc' = "chunk" /\ IsAudioBlock(out', <<1, chunk'>>))
      ]_vars

\* A SPEAK of one Text has ended with 702 END after two blocks.
C11_Witness ==
    /\ Plain /\ Quiet
    /\ outcome = "End"
    /\ last = <<1, 2>>
    /\ pc = "loop"
    /\ out = <<Line(702, " ", "END")>>

\* What the host makes of escaped bytes: each 0x7D is dropped and the byte after
\* it XORed with 0x20.
RECURSIVE Decode(_)
Decode(bytes) ==
    IF bytes = <<>> THEN <<>>
    ELSE IF bytes[1] = 125 /\ Len(bytes) >= 2
    THEN <<Xor32(bytes[2])>> \o Decode(SubSeq(bytes, 3, Len(bytes)))
    ELSE <<bytes[1]>> \o Decode(Tail(bytes))

\* The bytes the escaping loop has been over.
Escaped == SubSeq(audio, scan + 1, Len(audio))

\* C12: the bytes the loop has been over decode to the bytes they were, hold no
\* 0x0A, and every 0x7D among them is followed by 0x2A or 0x5D; the bytes it has
\* not reached are as they were.  When the loop is done this is all of audio.
C12_EscapingRoundTrip ==
    /\ Decode(Escaped) = SubSeq(raw, scan + 1, Len(raw))
    /\ SubSeq(audio, 1, scan) = SubSeq(raw, 1, scan)
    /\ \A i \in DOMAIN Escaped :
          /\ Escaped[i] # 10
          /\ Escaped[i] = 125 => (i < Len(Escaped) /\ Escaped[i + 1] \in {42, 93})

\* The loop is done with a chunk of '}', '\n' and ']': escaped bytes next to a
\* byte equal to an escaped one.
C12_Witness ==
    /\ scan = 0
    /\ raw = <<125, 10, 93>>
    /\ audio = <<125, 93, 125, 42, 93>>

\* C13, as claimed: every line written starts with a three-digit code followed
\* by '-' or ' '.
C13_AsClaimed ==
    \A i \in DOMAIN out : out[i].code \in 100..999 /\ out[i].sep \in {"-", " "}

\* A line synthesis_voice=<name> is at the head of the channel in a SET dialogue.
VoiceLine ==
    /\ pc = "set"
    /\ queue # <<>>
    /\ Len(Head(queue)) = 2
    /\ Head(queue)[1] = "synthesis_voice"

\* C14: once the voices are discovered the active voice is one of them, and the
\* names of the registry never change; a line synthesis_voice=<name> makes <name>
\* the active voice if it is in the registry and leaves the voice as it was if not.
C14_ActiveVoiceValid ==
    [][ /\ voices' # <<>> => voice' \in DOMAIN voices'
        /\ pc' \notin {"init", "exited", "panicked"} => voices' # <<>>
        /\ pc # "init" => DOMAIN voices' = DOMAIN voices
        /\ (VoiceLine /\ queue' = Tail(queue)) =>
              voice' = (IF Head(queue)[2] \in DOMAIN voices THEN Head(queue)[2] ELSE voice)
        /\ (voice' # voice /\ pc # "init") => (VoiceLine /\ voice' = Head(queue)[2])
      ]_vars

\* The voice was set to bob, and a line naming an unknown voice then left it so.
C14_Witness ==
    /\ pc = "set"
    /\ got.line = <<"synthesis_voice", "zed">>
    /\ voice = "bob"
    /\ DOMAIN voices = {"amy", "bob"}

\* The errors of building a synthesizer.
ConstructErrors == {"Failed to parse model config", "Failed to initialize model"}

C16_AsClaimed ==
    Ended =>
       /\ out # <<>>
       /\ out[Len(out)] = Line(300, " ", "MODULE ERROR")
       /\ \E i \in DOMAIN out : out[i].code = 300 /\ out[i].sep = "-"

\* The factor the claim gives for percentage p, in units of 1/200, lo being the
\* factor at -100, mid at 0 and hi at 100.
Linear(p, lo, mid, hi) ==
    IF p < 0 THEN mid + ((mid - lo) * p) \div 100 ELSE mid + ((hi - mid) * p) \div 100

\* C17: after rate=<p> the rate is 1.0 at 0, 4.5 at 100, 0.5 at -100 and linear
\* on each side of 0, whatever it was before; after pitch=<p> the same with 0.5,
\* 1.0 and 2.0; neither line touches the other factor's shape, and both factors
\* never decrease as p grows.
C17_ProsodyMapping ==
    /\ \A p \in Percents :
          /\ got.line = <<"rate", ToString(p)>> => rate = Linear(p, 100, 200, 900)
          /\ got.line = <<"pitch", ToString(p)>> => pitch = Linear(p, 100, 200, 400)
    /\ \A p, q \in Percents :
          p <= q => (RateOf(p) <= RateOf(q) /\ PitchOf(p) <= PitchOf(q))
    /\ RateOf(0) = 1 * Unit /\ RateOf(100) = (9 * Unit) \div 2 /\ RateOf(-100) = Unit \div 2
    /\ PitchOf(0) = 1 * Unit /\ PitchOf(100) = 2 * Unit /\ PitchOf(-100) = Unit \div 2

\* rate=100 was read while the rate stood at its least: it is 4.5 now.
C17_Witness ==
    /\ got.line = <<"rate", "100">>
    /\ rate = 900
    /\ pitch = 100
    /\ pc = "set"

\* C18, as claimed: once PAUSE has been received, a Mark sent after it, at any
\* depth, is the last thing sent and speak() has returned Pause(handled=true).
C18_AsClaimed ==
    (paused # <<>> /\ last # <<>> /\ last[Len(last)] = 0 /\ Before(paused, last)) =>
        outcome = "PauseHandled"

\* Some element of the document, at any depth, is a Text.
RECURSIVE HasText(_)
HasText(elements) ==
    \E i \in DOMAIN elements :
       elements[i].kind = "Text" \/ HasText(elements[i].children)

\* An iteration of the chunk loop has run in this step.
Iterated == iter' # iter /\ iter' # NoIteration

C20_StopOverridesPause ==
    (paused # <<>> /\ iter.got = STOP) =>
        /\ Before(paused, iter.at)
        /\ outcome = "Stop"
        /\ stack = <<>>
        /\ ~Playing
        /\ last # <<>> /\ Before(last, iter.at)
        /\ pc = "loop" => out = <<Line(703, " ", "STOP")>>

\* PAUSE was received in a Text and STOP in a later Text inside a container.
C20_Witness ==
    /\ paused # <<>>
    /\ iter.got = STOP
    /\ pc = "loop"
    /\ Len(iter.at) >= 3
    /\ Len(paused) = 2
    /\ outcome = "Stop"

\* The interrupt check is about to receive a line that is neither STOP nor PAUSE.
UnexpectedNext ==
    /\ pc = "chunk"
    /\ queue # <<>>
    /\ Head(queue) \notin {STOP, PAUSE}

\* The last line received was such a line, and no command has been read since.
Unexpected == got.by = "try_recv" /\ got.line \notin {STOP, PAUSE}

\* C21: the step in which the interrupt check receives a line that is neither
\* STOP nor PAUSE sends no chunk or mark, returns the error from every call of
\* speak(), writes 703-Unexpected command during playback and 703 STOP, and
\* leaves the worker at the command loop with every setting as it was: the line
\* is not run as a command.  The line after it is read by the command loop and
\* dispatched as a command: SPEAK opens a message, a line that names no command
\* is answered 300 ERR UNKNOWN COMMAND.
C21_UnexpectedCommand ==
    [][ /\ (UnexpectedNext /\ Len(queue') < Len(queue)) =>
              /\ got' = [line |-> Head(queue), by |-> "try_recv"]
              /\ queue' = Tail(queue)
              /\ last' = last
              /\ stack' = <<>>
              /\ outcome' = "Err"
              /\ pc' = "loop"
              /\ out' = ErrorLines("Unexpected command during playback")
              /\ UNCHANGED Settings
        /\ Unexpected' => (outcome' = "Err" /\ ~Playing' /\ last' # iter'.at)
        /\ (Unexpected /\ Len(queue') < Len(queue)) =>
              /\ pc = "loop"
              /\ got' = [line |-> Head(queue), by |-> "recv"]
              /\ queue' = Tail(queue)
              /\ Head(queue) = SPEAK =>
                    (pc' = "body" /\ out' = <<Line(202, " ", "OK RECEIVING MESSAGE")>>)
              /\ ~Known(Head(queue)) =>
                    (pc' = "loop" /\ out' = <<Line(300, " ", "ERR UNKNOWN COMMAND")>>)
      ]_vars

\* SPEAK was received by the interrupt check after a chunk had been sent: the
\* message was aborted, no new message was opened, and the next line waits for
\* the command loop.
C21_Witness ==
    /\ got = [line |-> SPEAK, by |-> "try_recv"]
    /\ pc = "loop"
    /\ outcome = "Err"
    /\ last # <<>>
    /\ out = ErrorLines("Unexpected command during playback")
    /\ queue = <<SPEAK>>

====
